---- MODULE Spec2Model ----
(***************************************************************************)
(* Client-side synchronisation of the todo list of ui/src/App.tsx with    *)
(* the zustand store of ui/src/store/todo.ts.                              *)
(*                                                                         *)
(* One App component instance exists per mount.  Each mount creates one   *)
(* WebSocket (numbered by the mount that created it), so socket w belongs *)
(* to mount w.  The handlers installed on a socket keep running after the *)
(* component that installed them is unmounted; the state setters of an    *)
(* unmounted instance have no effect, the module-global store has.        *)
(* The WebSocket itself is the browser's: its readyState and the order of *)
(* its events follow the WebSocket API (CONNECTING, OPEN, CLOSING,        *)
(* CLOSED; error is followed by close in the same task, with readyState   *)
(* already CLOSED; messages are delivered only while OPEN).                *)
(* Rendering is not modelled: a handler always sees the state of the      *)
(* latest update (useCallback dependency lists of App.tsx:47,62,74).       *)
(***************************************************************************)
EXTENDS Naturals, Sequences, FiniteSets

VARIABLES
    tasks,        \* useTodoStore().tasks: the Task List (a JSON value)
    storage,      \* sessionStorage entry 'todo-store'
    mounted,      \* an App instance is mounted
    cur,          \* number of mounts so far = id of the latest socket
    wsConnected,  \* useState of the mounted instance
    newTaskText,  \* useState of the mounted instance (the draft)
    wsRef,        \* wsRef.current of the mounted instance (NullRef = null)
    readyState,   \* readyState of every socket
    wire,         \* frames handed to send() of every socket, in order
    last,         \* what the last handler run did (console output, frames)
    snapshot,     \* the tasks of the most recent inbound frame of a
                  \* recognised type that carried tasks (none at first)
    sync          \* the backend process at the other end of the socket
                  \* (switched off where the frames are arbitrary)

vars == <<tasks, storage, mounted, cur, wsConnected, newTaskText, wsRef,
          readyState, wire, last, snapshot, sync>>

\* the variables of the page
client == <<tasks, storage, mounted, cur, wsConnected, newTaskText, wsRef,
            readyState, wire, last, snapshot>>

-----------------------------------------------------------------------------
(* Bounds *)

MaxConns == 2      \* sockets (= mounts) in a run
MaxFrames == 2     \* outbound frames in a run, over all sockets
MaxSyncFrames == 3 \* outbound frames in a run against the backend

\* the cap on outbound frames of the run at hand
FrameCap == IF sync.on THEN MaxSyncFrames ELSE MaxFrames

Sockets == 1..MaxConns
NullRef == 0

-----------------------------------------------------------------------------
(* Draft text: a sequence of characters; String.prototype.trim *)

\* the texts typed into the input: empty, blank, plain, with a leading blank
Texts == {<<>>, <<" ">>, <<"a">>, <<" ", "a">>}

RECURSIVE TrimStart(_)
TrimStart(s) ==
    IF s # <<>> /\ Head(s) = " " THEN TrimStart(Tail(s)) ELSE s

RECURSIVE TrimEnd(_)
TrimEnd(s) ==
    IF s # <<>> /\ s[Len(s)] = " " THEN TrimEnd(SubSeq(s, 1, Len(s) - 1)) ELSE s

trim(s) == TrimEnd(TrimStart(s))

EmptyText == <<>>

-----------------------------------------------------------------------------
(* JSON values carried under "tasks", and inbound frames *)

Undefined == [k |-> "undefined", a |-> <<>>]   \* the property is absent
JsonNull  == [k |-> "null", a |-> <<>>]        \* "tasks": null
JsonStr   == [k |-> "string", a |-> <<>>]      \* "tasks": "oops" (non-empty)
Arr(s)    == [k |-> "array", a |-> s]

TodoItem(i, t, c) == [id |-> i, text |-> t, completed |-> c]

T1     == TodoItem("t1", <<"a">>, "false")
T1done == TodoItem("t1", <<"a">>, "true")
T2     == TodoItem("t2", <<"a">>, "false")
BadItem == TodoItem("t1", <<"a">>, "missing")  \* {id, text} without completed

TaskArrays == {<<>>, <<T1>>, <<T2, T1done>>, <<BadItem>>}

IsTodoItem(e) == e.completed \in {"true", "false"}

\* a list of Tasks each having id, text and completed
IsTaskList(v) ==
    v.k = "array" /\ \A i \in 1..Len(v.a) : IsTodoItem(v.a[i])

TasksValues == {Undefined, JsonNull, JsonStr} \cup {Arr(s) : s \in TaskArrays}

RecognisedTypes == {"tasks_overview", "task_added", "task_toggled"}
Types == RecognisedTypes \cup {"pong", "undefined"}

JsonObject(ty, tv) == [k |-> "object", type |-> ty, tasks |-> tv]
JsonNullValue == [k |-> "null", type |-> "undefined", tasks |-> Undefined]

\* event.data: a text that is JSON or is not
RawFrames ==
    {[json |-> FALSE, value |-> JsonNullValue]}
    \cup {[json |-> TRUE, value |-> JsonNullValue]}
    \cup {[json |-> TRUE, value |-> JsonObject(ty, tv)] :
             ty \in Types, tv \in TasksValues}

NoData == [json |-> FALSE, value |-> JsonNullValue]

\* JSON.parse: throws a SyntaxError on a text that is not JSON
JSONparse(raw) ==
    IF raw.json THEN [threw |-> FALSE, value |-> raw.value]
    ELSE [threw |-> TRUE, value |-> JsonNullValue]

\* JavaScript truthiness of data.tasks (arrays, the empty one included, and
\* non-empty strings are truthy; undefined and null are not)
Truthy(v) == v.k \notin {"undefined", "null"}

-----------------------------------------------------------------------------
(* Outbound messages; JSON.stringify keeps exactly the fields given *)

GetTasksRequest == [action |-> "get_tasks", fields |-> {"action"},
                    text |-> EmptyText, id |-> ""]
AddTaskRequest(t) == [action |-> "add_task", fields |-> {"action", "text"},
                      text |-> t, id |-> ""]
ToggleTaskRequest(i) == [action |-> "toggle_task", fields |-> {"action", "id"},
                         text |-> EmptyText, id |-> i]

\* a frame on the wire, with the handler that sent it
Sent(by, message) == [by |-> by, frame |-> message]

RECURSIVE SumLen(_, _)
SumLen(f, n) == IF n = 0 THEN 0 ELSE Len(f[n]) + SumLen(f, n - 1)

TotalSent == SumLen(wire, MaxConns)

-----------------------------------------------------------------------------
(* store/todo.ts *)

\* persist(...): the entry written under 'todo-store'
Persisted(ts) == [present |-> TRUE, tasks |-> ts]
NoEntry == [present |-> FALSE, tasks |-> Arr(<<>>)]

\* setTasks appending to the held list instead of replacing it
setTasksMerging(newTasks) ==
    LET merged == IF tasks.k = "array" /\ newTasks.k = "array"
                  THEN Arr(tasks.a \o newTasks.a) ELSE newTasks
    IN [tasks |-> merged, storage |-> Persisted(merged)]

\* setTasks: set({tasks: newTasks}), persisted by the middleware
setTasks(newTasks) == [tasks |-> newTasks, storage |-> Persisted(newTasks)]

\* a store without the persist middleware's rehydration
useTodoStoreNotRestored(entry) == Arr(<<>>)

\* create(persist(...)): tasks: [] merged with the stored entry, if any
\* (JSON.stringify leaves out a tasks that is undefined)
useTodoStore(entry) ==
    IF entry.present /\ entry.tasks.k # "undefined" THEN entry.tasks
    ELSE Arr(<<>>)

-----------------------------------------------------------------------------
(* App.tsx: the handlers, as functions of the state they read.  Each      *)
(* returns the frames it hands to send(), whether it called console.warn  *)
(* or console.error, and the store as it leaves it.                        *)

\* sendWsMessage without the readyState test
sendWsMessageUnchecked(ref, rs, by, message) ==
    IF ref # NullRef THEN <<Sent(by, message)>> ELSE <<>>

\* wsRef.current.send(JSON.stringify(message)) iff the socket is OPEN
sendWsMessage(ref, rs, by, message) ==
    IF ref # NullRef /\ rs[ref] = "OPEN" THEN <<Sent(by, message)>> ELSE <<>>

\* fetchTasks without the console.warn of its else branch
fetchTasksSilent(conn, ref, rs, store) ==
    IF conn /\ ref # NullRef
    THEN [sent |-> sendWsMessage(ref, rs, "fetchTasks", GetTasksRequest),
          warned |-> FALSE, store |-> store]
    ELSE [sent |-> <<>>, warned |-> FALSE, store |-> store]

fetchTasks(conn, ref, rs, store) ==
    IF conn /\ ref # NullRef
    THEN [sent |-> sendWsMessage(ref, rs, "fetchTasks", GetTasksRequest),
          warned |-> FALSE, store |-> store]
    ELSE [sent |-> <<>>, warned |-> TRUE, store |-> store]

\* handleAddTask with neither the wsConnected nor the readyState check
handleAddTaskUngated(text, conn, ref, rs, store) ==
    IF trim(text) = EmptyText
    THEN [sent |-> <<>>, warned |-> FALSE, newTaskText |-> text,
          store |-> store]
    ELSE [sent |-> <<Sent("handleAddTask", AddTaskRequest(text))>>,
          warned |-> FALSE, newTaskText |-> EmptyText, store |-> store]

\* handleAddTask testing !newTaskText instead of !newTaskText.trim()
handleAddTaskNoTrim(text, conn, ref, rs, store) ==
    IF text = EmptyText
    THEN [sent |-> <<>>, warned |-> FALSE, newTaskText |-> text,
          store |-> store]
    ELSE IF conn /\ ref # NullRef
    THEN [sent |-> sendWsMessage(ref, rs, "handleAddTask", AddTaskRequest(text)),
          warned |-> FALSE, newTaskText |-> EmptyText, store |-> store]
    ELSE [sent |-> <<>>, warned |-> TRUE, newTaskText |-> text,
          store |-> store]

handleAddTask(text, conn, ref, rs, store) ==
    IF trim(text) = EmptyText
    THEN [sent |-> <<>>, warned |-> FALSE, newTaskText |-> text,
          store |-> store]
    ELSE IF conn /\ ref # NullRef
    THEN [sent |-> sendWsMessage(ref, rs, "handleAddTask", AddTaskRequest(text)),
          warned |-> FALSE, newTaskText |-> EmptyText, store |-> store]
    ELSE [sent |-> <<>>, warned |-> TRUE, newTaskText |-> text,
          store |-> store]

\* handleToggleComplete that also flips the task in the store at once
handleToggleCompleteOptimistic(taskId, conn, ref, rs, store) ==
    LET flipped ==
          IF store.tasks.k # "array" THEN store.tasks
          ELSE Arr([i \in 1..Len(store.tasks.a) |->
                     IF store.tasks.a[i].id = taskId
                     THEN [store.tasks.a[i] EXCEPT !.completed =
                             IF @ = "true" THEN "false" ELSE "true"]
                     ELSE store.tasks.a[i]])
    IN
    IF conn /\ ref # NullRef
    THEN [sent |-> sendWsMessage(ref, rs, "handleToggleComplete",
                                 ToggleTaskRequest(taskId)),
          warned |-> FALSE, store |-> setTasks(flipped)]
    ELSE [sent |-> <<>>, warned |-> TRUE, store |-> store]

handleToggleComplete(taskId, conn, ref, rs, store) ==
    IF conn /\ ref # NullRef
    THEN [sent |-> sendWsMessage(ref, rs, "handleToggleComplete",
                                 ToggleTaskRequest(taskId)),
          warned |-> FALSE, store |-> store]
    ELSE [sent |-> <<>>, warned |-> TRUE, store |-> store]

\* ws.onopen without the initial fetch
onopenNoFetch(conn) == [wsConnected |-> TRUE, sent |-> <<>>]

\* ws.onopen: setWsConnected(true); ws.send(get_tasks)
onopen(conn) ==
    [wsConnected |-> TRUE, sent |-> <<Sent("onopen", GetTasksRequest)>>]

\* ws.onmessage testing data.tasks.length instead of data.tasks
onmessageNonEmptyOnly(raw, store) ==
    LET p == JSONparse(raw) IN
    IF p.threw
    THEN [store |-> store, errored |-> TRUE, uncaught |-> FALSE]
    ELSE IF p.value.k = "null"
    THEN [store |-> store, errored |-> TRUE, uncaught |-> FALSE]
    ELSE IF /\ p.value.type \in RecognisedTypes
            /\ Truthy(p.value.tasks)
            /\ p.value.tasks # Arr(<<>>)
    THEN [store |-> setTasks(p.value.tasks), errored |-> FALSE,
          uncaught |-> FALSE]
    ELSE [store |-> store, errored |-> FALSE, uncaught |-> FALSE]

\* ws.onmessage without the test of data.tasks
onmessageNoTasksTest(raw, store) ==
    LET p == JSONparse(raw) IN
    IF p.threw
    THEN [store |-> store, errored |-> TRUE, uncaught |-> FALSE]
    ELSE IF p.value.k = "null"
    THEN [store |-> store, errored |-> TRUE, uncaught |-> FALSE]
    ELSE IF p.value.type \in RecognisedTypes
    THEN [store |-> setTasks(p.value.tasks), errored |-> FALSE,
          uncaught |-> FALSE]
    ELSE [store |-> store, errored |-> FALSE, uncaught |-> FALSE]

\* ws.onmessage that does not handle "task_added"
onmessageNoAdded(raw, store) ==
    LET p == JSONparse(raw) IN
    IF p.threw
    THEN [store |-> store, errored |-> TRUE, uncaught |-> FALSE]
    ELSE IF p.value.k = "null"
    THEN [store |-> store, errored |-> TRUE, uncaught |-> FALSE]
    ELSE IF /\ p.value.type \in {"tasks_overview", "task_toggled"}
            /\ Truthy(p.value.tasks)
    THEN [store |-> setTasks(p.value.tasks), errored |-> FALSE,
          uncaught |-> FALSE]
    ELSE [store |-> store, errored |-> FALSE, uncaught |-> FALSE]

\* ws.onmessage that does not handle "task_toggled"
onmessageNoToggled(raw, store) ==
    LET p == JSONparse(raw) IN
    IF p.threw
    THEN [store |-> store, errored |-> TRUE, uncaught |-> FALSE]
    ELSE IF p.value.k = "null"
    THEN [store |-> store, errored |-> TRUE, uncaught |-> FALSE]
    ELSE IF /\ p.value.type \in {"tasks_overview", "task_added"}
            /\ Truthy(p.value.tasks)
    THEN [store |-> setTasks(p.value.tasks), errored |-> FALSE,
          uncaught |-> FALSE]
    ELSE [store |-> store, errored |-> FALSE, uncaught |-> FALSE]

\* ws.onmessage without the test of data.type
onmessageAnyType(raw, store) ==
    LET p == JSONparse(raw) IN
    IF p.threw
    THEN [store |-> store, errored |-> TRUE, uncaught |-> FALSE]
    ELSE IF p.value.k = "null"
    THEN [store |-> store, errored |-> TRUE, uncaught |-> FALSE]
    ELSE IF Truthy(p.value.tasks)
    THEN [store |-> setTasks(p.value.tasks), errored |-> FALSE,
          uncaught |-> FALSE]
    ELSE [store |-> store, errored |-> FALSE, uncaught |-> FALSE]

\* ws.onmessage: the store after the handler, whether the catch block
\* called console.error, and whether an exception left the handler
\* (JSON.parse and the reads of data are all inside the try block)
onmessage(raw, store) ==
    LET p == JSONparse(raw) IN
    IF p.threw
    THEN [store |-> store, errored |-> TRUE, uncaught |-> FALSE]
    ELSE IF p.value.k = "null"            \* data.type on null: TypeError
    THEN [store |-> store, errored |-> TRUE, uncaught |-> FALSE]
    ELSE IF p.value.type \in RecognisedTypes /\ Truthy(p.value.tasks)
    THEN [store |-> setTasks(p.value.tasks), errored |-> FALSE,
          uncaught |-> FALSE]
    ELSE [store |-> store, errored |-> FALSE, uncaught |-> FALSE]

\* ws.onclose that only logs
oncloseKeepsState(conn) == conn

\* ws.onclose: setWsConnected(false)
onclose(conn) == FALSE

\* ws.onerror: setWsConnected(false)
onerror(conn) == FALSE

\* the effect's cleanup: ws.close() only when the socket is OPEN
cleanup(rs) == IF rs = "OPEN" THEN "CLOSING" ELSE rs

\* new WebSocket(WEBSOCKET_URL); wsRef.current = ws
useEffect(rs, w) == [readyState |-> [rs EXCEPT ![w] = "CONNECTING"], wsRef |-> w]

-----------------------------------------------------------------------------
(* The record of the last handler run *)

Did(op, text, id, sent, warned, errored) ==
    [op |-> op, text |-> text, id |-> id, sent |-> sent,
     warned |-> warned, errored |-> errored, uncaught |-> FALSE,
     foreign |-> FALSE]

Quiet(op) == Did(op, EmptyText, "", <<>>, FALSE, FALSE)

\* the instance that owns socket w is still mounted
Live(w) == mounted /\ w = cur

\* the handlers of the user's intents
Intents == {"fetchTasks", "handleAddTask", "handleToggleComplete"}

\* ids of the tasks the view renders a checkbox for
RenderedIds ==
    IF tasks.k = "array" THEN {tasks.a[i].id : i \in 1..Len(tasks.a)} ELSE {}

Store == [tasks |-> tasks, storage |-> storage]

NoSnapshot == [seen |-> FALSE, tasks |-> Arr(<<>>)]

\* no backend: the peer is arbitrary
NoSync == [on |-> FALSE, list |-> <<>>, served |-> 0, inflight |-> <<>>,
           pre |-> "none", shown |-> "none", fresh |-> FALSE]

\* the frame parses to an object whose type is none of the recognised ones
\* (or is absent) and whose tasks is a list of Tasks
Foreign(raw) ==
    /\ raw.json
    /\ raw.value.k = "object"
    /\ raw.value.type \notin RecognisedTypes
    /\ IsTaskList(raw.value.tasks)

\* the frame is a JSON object of a recognised type carrying tasks
\* (a "tasks" that is absent or null carries none)
CarriesTasks(raw) ==
    /\ raw.json
    /\ raw.value.k = "object"
    /\ raw.value.type \in RecognisedTypes
    /\ raw.value.tasks.k \notin {"undefined", "null"}

-----------------------------------------------------------------------------
Init ==
    /\ tasks = useTodoStore(NoEntry)
    /\ storage = NoEntry
    /\ mounted = FALSE
    /\ cur = 0
    /\ wsConnected = FALSE
    /\ newTaskText = EmptyText
    /\ wsRef = NullRef
    /\ readyState = [w \in Sockets |-> "NONE"]
    /\ wire = [w \in Sockets |-> <<>>]
    /\ last = Quiet("init")
    /\ snapshot = NoSnapshot
    /\ sync = NoSync

\* App is mounted: useState initial values, then the effect opens a socket
Mount ==
    /\ ~mounted
    /\ cur < MaxConns
    /\ mounted' = TRUE
    /\ cur' = cur + 1
    /\ wsConnected' = FALSE
    /\ newTaskText' = EmptyText
    /\ LET e == useEffect(readyState, cur + 1) IN
         /\ wsRef' = e.wsRef
         /\ readyState' = e.readyState
    /\ last' = Quiet("mount")
    /\ UNCHANGED <<tasks, storage, wire, snapshot>>

\* App is unmounted: the effect's cleanup runs, the instance state is gone
Unmount ==
    /\ mounted
    /\ mounted' = FALSE
    /\ readyState' = [readyState EXCEPT ![cur] = cleanup(readyState[cur])]
    /\ wsConnected' = FALSE
    /\ newTaskText' = EmptyText
    /\ wsRef' = NullRef
    /\ last' = Quiet("unmount")
    /\ UNCHANGED <<tasks, storage, cur, wire, snapshot>>

\* onChange of the input: setNewTaskText(e.target.value)
TypeText ==
    /\ mounted
    /\ \E t \in Texts :
         /\ t # newTaskText
         /\ newTaskText' = t
    /\ last' = Quiet("onChange")
    /\ UNCHANGED <<tasks, storage, mounted, cur, wsConnected, wsRef,
                   readyState, wire, snapshot>>

\* hand the frames of a handler to the socket they were sent on
Transmit(w, sent) ==
    IF w = NullRef THEN wire ELSE [wire EXCEPT ![w] = wire[w] \o sent]

\* click on "Refresh Tasks"
Refresh ==
    /\ mounted
    /\ LET r == fetchTasks(wsConnected, wsRef, readyState, Store) IN
         /\ TotalSent + Len(r.sent) <= FrameCap
         /\ wire' = Transmit(wsRef, r.sent)
         /\ tasks' = r.store.tasks
         /\ storage' = r.store.storage
         /\ last' = Did("fetchTasks", EmptyText, "", r.sent, r.warned, FALSE)
    /\ UNCHANGED <<mounted, cur, wsConnected, newTaskText, wsRef, readyState,
                   snapshot>>

\* click on "Add Task", or Enter in the input
AddTask ==
    /\ mounted
    /\ LET r == handleAddTask(newTaskText, wsConnected, wsRef, readyState,
                              Store) IN
         /\ TotalSent + Len(r.sent) <= FrameCap
         /\ wire' = Transmit(wsRef, r.sent)
         /\ newTaskText' = r.newTaskText
         /\ tasks' = r.store.tasks
         /\ storage' = r.store.storage
         /\ last' = Did("handleAddTask", newTaskText, "", r.sent, r.warned,
                        FALSE)
    /\ UNCHANGED <<mounted, cur, wsConnected, wsRef, readyState, snapshot>>

\* click on the checkbox of a rendered task
ToggleTask ==
    /\ mounted
    /\ \E taskId \in RenderedIds :
         LET r == handleToggleComplete(taskId, wsConnected, wsRef, readyState,
                                       Store) IN
           /\ TotalSent + Len(r.sent) <= FrameCap
           /\ wire' = Transmit(wsRef, r.sent)
           /\ tasks' = r.store.tasks
           /\ storage' = r.store.storage
           /\ last' = Did("handleToggleComplete", EmptyText, taskId, r.sent,
                          r.warned, FALSE)
    /\ UNCHANGED <<mounted, cur, wsConnected, newTaskText, wsRef, readyState,
                   snapshot>>

\* the transport signals open: readyState OPEN, then ws.onopen
TransportOpen ==
    \E w \in Sockets :
      /\ readyState[w] = "CONNECTING"
      /\ LET r == onopen(wsConnected) IN
           /\ TotalSent + Len(r.sent) <= FrameCap
           /\ readyState' = [readyState EXCEPT ![w] = "OPEN"]
           /\ wsConnected' = IF Live(w) THEN r.wsConnected ELSE wsConnected
           /\ wire' = Transmit(w, r.sent)
           /\ last' = Did("onopen", EmptyText, "", r.sent, FALSE, FALSE)
      /\ UNCHANGED <<tasks, storage, mounted, cur, newTaskText, wsRef,
                     snapshot>>

\* an inbound frame on an open socket: ws.onmessage
Deliver(w, raw) ==
    /\ readyState[w] = "OPEN"
    /\ LET r == onmessage(raw, Store) IN
         /\ tasks' = r.store.tasks
         /\ storage' = r.store.storage
         /\ last' = [Did("onmessage", EmptyText, "", <<>>, FALSE, r.errored)
                       EXCEPT !.uncaught = r.uncaught, !.foreign = Foreign(raw)]
    /\ snapshot' = IF CarriesTasks(raw)
                   THEN [seen |-> TRUE, tasks |-> raw.value.tasks]
                   ELSE snapshot
    /\ UNCHANGED <<mounted, cur, wsConnected, newTaskText, wsRef,
                   readyState, wire>>

Message == \E w \in Sockets, raw \in RawFrames : Deliver(w, raw)

\* the closing handshake starts at the peer: readyState CLOSING, no event yet
PeerClosing ==
    \E w \in Sockets :
      /\ readyState[w] = "OPEN"
      /\ readyState' = [readyState EXCEPT ![w] = "CLOSING"]
      /\ last' = Quiet("closing")
      /\ UNCHANGED <<tasks, storage, mounted, cur, wsConnected, newTaskText,
                     wsRef, wire, snapshot>>

\* the connection is closed: readyState CLOSED, then ws.onclose
TransportClose ==
    \E w \in Sockets :
      /\ readyState[w] \in {"CONNECTING", "OPEN", "CLOSING"}
      /\ readyState' = [readyState EXCEPT ![w] = "CLOSED"]
      /\ wsConnected' = IF Live(w) THEN onclose(wsConnected) ELSE wsConnected
      /\ last' = Quiet("onclose")
      /\ UNCHANGED <<tasks, storage, mounted, cur, newTaskText, wsRef, wire,
                     snapshot>>

\* the connection fails: readyState CLOSED, then ws.onerror, then ws.onclose
TransportError ==
    \E w \in Sockets :
      /\ readyState[w] \in {"CONNECTING", "OPEN", "CLOSING"}
      /\ readyState' = [readyState EXCEPT ![w] = "CLOSED"]
      /\ wsConnected' = IF Live(w) THEN onclose(onerror(wsConnected))
                        ELSE wsConnected
      /\ last' = Did("onerror", EmptyText, "", <<>>, FALSE, TRUE)
      /\ UNCHANGED <<tasks, storage, mounted, cur, newTaskText, wsRef, wire,
                     snapshot>>

\* the page is reloaded: every socket of the page is closed without its
\* handlers running, and the store is created anew from sessionStorage
Reload ==
    /\ cur >= 1
    /\ mounted' = FALSE
    /\ wsConnected' = FALSE
    /\ newTaskText' = EmptyText
    /\ wsRef' = NullRef
    /\ readyState' = [w \in Sockets |->
                        IF readyState[w] = "NONE" THEN "NONE" ELSE "CLOSED"]
    /\ tasks' = useTodoStore(storage)
    /\ last' = Quiet("reload")
    /\ UNCHANGED <<storage, cur, wire, snapshot>>

\* the page against a peer that may send any frame: no backend state
Next ==
    \/ Mount /\ UNCHANGED sync
    \/ Unmount /\ UNCHANGED sync
    \/ TypeText /\ UNCHANGED sync
    \/ Refresh /\ UNCHANGED sync
    \/ AddTask /\ UNCHANGED sync
    \/ ToggleTask /\ UNCHANGED sync
    \/ TransportOpen /\ UNCHANGED sync
    \/ Message /\ UNCHANGED sync
    \/ PeerClosing /\ UNCHANGED sync
    \/ TransportClose /\ UNCHANGED sync
    \/ TransportError /\ UNCHANGED sync
    \/ Reload /\ UNCHANGED sync

Spec == Init /\ [][Next]_vars

TypeOK ==
    /\ tasks \in TasksValues
    /\ mounted \in BOOLEAN
    /\ cur \in 0..MaxConns
    /\ wsConnected \in BOOLEAN
    /\ newTaskText \in Texts
    /\ wsRef \in {NullRef} \cup Sockets
    /\ \A w \in Sockets :
         readyState[w] \in {"NONE", "CONNECTING", "OPEN", "CLOSING", "CLOSED"}
    /\ TotalSent <= FrameCap

-----------------------------------------------------------------------------
(* The page against the backend process.  The backend is the collaborator  *)
(* of the protocol: it accepts the three action shapes in the order they   *)
(* were sent, keeps the authoritative list, assigns the ids, toggles the   *)
(* completed flag of the named task, and answers every action with a frame *)
(* carrying its full list.  The connection is opened once, stays open and  *)
(* delivers the answers in order.                                          *)

\* the lists the backend may hold when the page is opened
SyncLists == {<<T1>>, <<T2, T1done>>}

\* the identifier the backend assigns to the n-th task of its list
BackendId(n) ==
    IF n = 1 THEN "t1" ELSE IF n = 2 THEN "t2" ELSE IF n = 3 THEN "t3"
    ELSE IF n = 4 THEN "t4" ELSE IF n = 5 THEN "t5" ELSE "t6"

Flip(c) == IF c = "true" THEN "false" ELSE IF c = "false" THEN "true" ELSE c

\* the completed flag of task id in list l ("none" if l has no such task)
Completed(l, id) ==
    IF \E i \in 1..Len(l) : l[i].id = id
    THEN l[CHOOSE i \in 1..Len(l) : l[i].id = id].completed
    ELSE "none"

\* the backend's list after it processed an action
BackendApply(l, f) ==
    IF f.action = "add_task"
    THEN Append(l, TodoItem(BackendId(Len(l) + 1), f.text, "false"))
    ELSE IF f.action = "toggle_task"
    THEN [i \in 1..Len(l) |->
            IF l[i].id = f.id
            THEN [l[i] EXCEPT !.completed = Flip(@)] ELSE l[i]]
    ELSE l

\* the frame the backend answers an action with: its full list
BackendReply(l, f) ==
    [json |-> TRUE,
     value |-> JsonObject(IF f.action = "add_task" THEN "task_added"
                          ELSE IF f.action = "toggle_task" THEN "task_toggled"
                          ELSE "tasks_overview",
                          Arr(l))]

\* a freshly loaded page (with or without a list restored from an earlier
\* load of the same tab) and a backend holding some list of its own
InitSync ==
    /\ storage \in {NoEntry} \cup {Persisted(Arr(l)) : l \in SyncLists}
    /\ tasks = useTodoStore(storage)
    /\ snapshot = IF storage.present
                  THEN [seen |-> TRUE, tasks |-> storage.tasks] ELSE NoSnapshot
    /\ mounted = FALSE
    /\ cur = 0
    /\ wsConnected = FALSE
    /\ newTaskText = EmptyText
    /\ wsRef = NullRef
    /\ readyState = [w \in Sockets |-> "NONE"]
    /\ wire = [w \in Sockets |-> <<>>]
    /\ last = Quiet("init")
    /\ sync \in {[NoSync EXCEPT !.on = TRUE, !.list = l] : l \in SyncLists}

\* the page is opened once
SyncMount == cur = 0 /\ Mount /\ UNCHANGED sync

\* the toggle_task frames sent so far
ToggleFrames(w) ==
    {i \in 1..Len(wire[w]) : wire[w][i].frame.action = "toggle_task"}

\* a click on a checkbox; the first toggle_task frame notes what the page
\* showed for that task, and whether every earlier frame had been answered
\* and the answer received
SyncToggle ==
    /\ ToggleTask
    /\ sync' = IF last'.sent # <<>> /\ ToggleFrames(cur) = {}
               THEN [sync EXCEPT
                       !.shown = Completed(tasks.a, last'.id),
                       !.fresh = /\ sync.served = Len(wire[cur])
                                 /\ sync.inflight = <<>>]
               ELSE sync

\* the backend processes the next action and answers with its full list;
\* at the first toggle_task it notes the flag it held before
BackendServe ==
    /\ sync.on
    /\ cur >= 1
    /\ sync.served < Len(wire[cur])
    /\ LET f == wire[cur][sync.served + 1].frame
           l == BackendApply(sync.list, f)
       IN sync' = [sync EXCEPT
                     !.list = l,
                     !.served = @ + 1,
                     !.inflight = Append(@, BackendReply(l, f)),
                     !.pre = IF /\ f.action = "toggle_task"
                                /\ \A i \in ToggleFrames(cur) : i > sync.served
                             THEN Completed(sync.list, f.id) ELSE @]
    /\ UNCHANGED client

\* the oldest answer in flight reaches ws.onmessage
SyncDeliver ==
    /\ sync.on
    /\ cur >= 1
    /\ sync.inflight # <<>>
    /\ Deliver(cur, Head(sync.inflight))
    /\ sync' = [sync EXCEPT !.inflight = Tail(@)]

NextSync ==
    \/ SyncMount
    \/ TransportOpen /\ UNCHANGED sync
    \/ TypeText /\ UNCHANGED sync
    \/ Refresh /\ UNCHANGED sync
    \/ AddTask /\ UNCHANGED sync
    \/ SyncToggle
    \/ BackendServe
    \/ SyncDeliver

\* the page is opened and its connection is established; the backend
\* answers every action it received and every answer in flight arrives
SpecSync ==
    /\ InitSync
    /\ [][NextSync]_vars
    /\ WF_vars(SyncMount)
    /\ WF_vars(TransportOpen /\ UNCHANGED sync)
    /\ WF_vars(BackendServe)
    /\ WF_vars(SyncDeliver)

-----------------------------------------------------------------------------
(* Properties *)

\* C1: an intent (refresh, add task, toggle task) issued while wsConnected
\* is false hands no frame to any socket and leaves the Task List as it was.
C1_BlockedIntentSendsNothing ==
    [][(last'.op \in Intents /\ ~wsConnected)
         => (wire' = wire /\ last'.sent = <<>> /\ tasks' = tasks)]_vars

\* C1 witness: after a snapshot was received and the connection was closed,
\* an add-task intent with a non-blank draft was rejected with a warning.
C1_Witness ==
    /\ last.op = "handleAddTask"
    /\ trim(last.text) # EmptyText
    /\ last.warned
    /\ mounted /\ ~wsConnected
    /\ readyState[cur] = "CLOSED"
    /\ wire[cur] # <<>>
    /\ tasks = Arr(<<T1>>)

\* C2: on every connection the frames start with the one get_tasks frame
\* that ws.onopen sends: a socket that is or was open has it as its first
\* frame, no socket has a second one, a socket that never opened has no
\* frame, and the open handler sends exactly that one frame.
C2_GetTasksFirstOnOpen ==
    /\ \A w \in Sockets :
         /\ readyState[w] \in {"NONE", "CONNECTING"} => wire[w] = <<>>
         /\ readyState[w] \in {"OPEN", "CLOSING"} => wire[w] # <<>>
         /\ wire[w] # <<>> =>
              /\ Head(wire[w]) = Sent("onopen", GetTasksRequest)
              /\ \A i \in 2..Len(wire[w]) : wire[w][i].by # "onopen"
    /\ last.op = "onopen" => last.sent = <<Sent("onopen", GetTasksRequest)>>

\* C2 witness: a connection on which a user-initiated frame followed the
\* initial get_tasks.
C2_Witness ==
    \E w \in Sockets :
      /\ Len(wire[w]) = 2
      /\ wire[w][1] = Sent("onopen", GetTasksRequest)
      /\ wire[w][2].by \in Intents

\* C3: once an inbound frame of one of the three recognised types carrying
\* tasks has arrived, the Task List is the tasks of the most recent such
\* frame, element for element and in that order, whatever arrived since.
C3_TaskListIsLatestSnapshot ==
    snapshot.seen => tasks = snapshot.tasks

\* C3 witness: the empty list of a recognised frame has been stored (and
\* persisted) as the Task List.
C3_Witness ==
    /\ last.op = "onmessage"
    /\ snapshot.seen
    /\ snapshot.tasks = Arr(<<>>)
    /\ tasks = Arr(<<>>)
    /\ storage = Persisted(Arr(<<>>))

\* the frame cannot be parsed, or parses to an object without tasks
Unparsable(raw) == ~raw.json
MissingTasks(raw) ==
    raw.json /\ raw.value.k = "object" /\ raw.value.tasks = Undefined

\* the frames of the model that cannot be parsed or have no tasks field
DroppedFrames == {raw \in RawFrames : Unparsable(raw) \/ MissingTasks(raw)}

\* C4: delivering a frame that cannot be parsed, or that has no tasks
\* field, leaves the Task List and its persisted copy unchanged, no
\* exception leaves the handler, and the socket stays open for the frames
\* that follow: a ws.onmessage step that changes any of these is not the
\* delivery of such a frame.
C4_DroppedFrameChangesNothing ==
    [][(/\ last'.op = "onmessage"
        /\ \/ tasks' # tasks
           \/ storage' # storage
           \/ last'.uncaught
           \/ \E w \in Sockets : readyState'[w] # readyState[w])
         => \A raw \in DroppedFrames, w \in Sockets : ~Deliver(w, raw)]_vars

\* C4 witness: a frame was dropped in the catch block while the Task List
\* held a snapshot received before it.
C4_Witness ==
    /\ last.op = "onmessage"
    /\ last.errored
    /\ snapshot.seen
    /\ tasks = Arr(<<T2, T1done>>)

\* the frame parses to an object whose tasks is present but is not a list
\* of Tasks each having id, text and completed
MalformedTasks(raw) ==
    /\ raw.json
    /\ raw.value.k = "object"
    /\ raw.value.tasks.k \notin {"undefined", "null"}
    /\ ~IsTaskList(raw.value.tasks)

\* the frames of the model with such a tasks value
MalformedFrames == {raw \in RawFrames : MalformedTasks(raw)}

\* C5: delivering a frame whose tasks is present but is not a list of
\* Tasks leaves the Task List unchanged: a ws.onmessage step that changes
\* the Task List is not the delivery of such a frame.
C5_MalformedTasksDropped ==
    [][(last'.op = "onmessage" /\ tasks' # tasks)
         => \A raw \in MalformedFrames, w \in Sockets : ~Deliver(w, raw)]_vars

\* the component that created socket w is no longer mounted
Unmounted(w) == readyState[w] # "NONE" /\ ~Live(w)

\* C6: a connection whose component has been unmounted is not open,
\* whether the unmount came while it was connecting or while it was open.
C6_ReleasedOnUnmount ==
    \A w \in Sockets : Unmounted(w) => readyState[w] # "OPEN"

\* the connections that are connecting or open
LiveConnections == {w \in Sockets : readyState[w] \in {"CONNECTING", "OPEN"}}

\* C7: with every mount preceded by the unmount of the previous one, at
\* most one connection is connecting or open at any time.
C7_AtMostOneLiveConnection ==
    Cardinality(LiveConnections) <= 1

\* C8: once the connection of the mounted component is closed (close or
\* error), wsConnected is false, and for as long as this component stays
\* mounted wsConnected stays false, no connection is created, no connection
\* becomes open and no frame is sent.
C8_NoReconnectNoFrameUntilNewMount ==
    [][/\ (mounted' /\ readyState'[cur'] = "CLOSED") => ~wsConnected'
       /\ (mounted /\ readyState[cur] = "CLOSED" /\ mounted')
            => /\ cur' = cur
               /\ ~wsConnected'
               /\ \A w \in Sockets :
                    readyState'[w] = "OPEN" => readyState[w] = "OPEN"
               /\ wire' = wire]_vars

\* the one frame an intent is to give
ExpectedFrame ==
    IF last.op = "fetchTasks" THEN Sent("fetchTasks", GetTasksRequest)
    ELSE IF last.op = "handleAddTask"
    THEN Sent("handleAddTask", AddTaskRequest(last.text))
    ELSE Sent("handleToggleComplete", ToggleTaskRequest(last.id))

\* C9: an intent issued while wsConnected is true (an add-task intent with
\* a non-blank draft) hands exactly one frame of its shape to the socket.
C9_OneFramePerIntent ==
    (/\ last.op \in Intents
     /\ wsConnected
     /\ (last.op = "handleAddTask" => trim(last.text) # EmptyText))
      => last.sent = <<ExpectedFrame>>

\* C10: no intent changes the Task List or its persisted copy, connected
\* or not; the Task List changes only in a step of ws.onmessage.
C10_OnlyInboundChangesTasks ==
    [][/\ last'.op \in Intents => (tasks' = tasks /\ storage' = storage)
       /\ tasks' # tasks => last'.op = "onmessage"]_vars

\* C10 witness: a toggle_task frame for t1 went out while connected and the
\* Task List still shows t1 as not completed.
C10_Witness ==
    /\ last.op = "handleToggleComplete"
    /\ last.id = "t1"
    /\ wsConnected
    /\ last.sent = <<Sent("handleToggleComplete", ToggleTaskRequest("t1"))>>
    /\ tasks = Arr(<<T1>>)

\* C11: no add_task frame carries a text that is empty or whitespace only,
\* and an add-task intent with such a draft hands nothing to the socket.
C11_NoBlankAddTask ==
    /\ \A w \in Sockets : \A i \in 1..Len(wire[w]) :
          wire[w][i].frame.action = "add_task"
              => trim(wire[w][i].frame.text) # EmptyText
    /\ (last.op = "handleAddTask" /\ trim(last.text) = EmptyText)
          => last.sent = <<>>

\* C11 witness: an add-task intent with a draft of one space was issued
\* while connected on an OPEN socket, and no frame went out.
C11_Witness ==
    /\ last.op = "handleAddTask"
    /\ last.text = <<" ">>
    /\ wsConnected
    /\ wsRef # NullRef
    /\ readyState[wsRef] = "OPEN"
    /\ last.sent = <<>>

\* the frames whose tasks value reaches setTasks
CarryingFrames ==
    {raw \in RawFrames : /\ raw.json
                         /\ raw.value.k = "object"
                         /\ raw.value.type \in RecognisedTypes
                         /\ CarriesTasks(raw)}

\* C12: a step that hands a list L to setTasks leaves exactly L as the Task
\* List and as the persisted entry, whatever the list was before: no merge,
\* no append.
C12_ReplaceIsWholesale ==
    [][(/\ last'.op = "onmessage"
        /\ \/ tasks' # snapshot'.tasks
           \/ storage' # Persisted(snapshot'.tasks))
         => \A raw \in CarryingFrames, w \in Sockets : ~Deliver(w, raw)]_vars

\* C12 witness: setTasks was called with the two-task list and the Task List
\* and the persisted entry are exactly that list.
C12_Witness ==
    /\ last.op = "onmessage"
    /\ ~last.errored
    /\ ~last.foreign
    /\ snapshot = [seen |-> TRUE, tasks |-> Arr(<<T2, T1done>>)]
    /\ tasks = Arr(<<T2, T1done>>)
    /\ storage = Persisted(Arr(<<T2, T1done>>))

\* C14: the session-storage entry todo-store always holds the last list
\* handed to setTasks (and is absent before the first one), and right after a
\* reload, before any frame of the new connection, the Task List is that list.
C14_PersistedAndRestored ==
    /\ snapshot.seen => storage = Persisted(snapshot.tasks)
    /\ ~snapshot.seen => storage = NoEntry
    /\ last.op = "reload"
          => tasks = (IF snapshot.seen THEN snapshot.tasks ELSE Arr(<<>>))

\* C14 witness: the page was just reloaded and shows the two-task list that
\* was stored before the reload.
C14_Witness ==
    /\ last.op = "reload"
    /\ snapshot.seen
    /\ tasks = Arr(<<T2, T1done>>)

\* C15: an intent blocked because wsConnected is false logs a warning and
\* hands nothing to any socket, and nothing is kept for later: a frame
\* reaches a wire only in the step of the handler that built it, and it is
\* the one frame of that step (get_tasks of ws.onopen, or the frame of the
\* intent just issued), also after a later transition to connected.
C15_BlockedIntentWarnsNoQueue ==
    [][/\ (/\ last'.op \in Intents
           /\ ~wsConnected
           /\ (last'.op = "handleAddTask" => trim(last'.text) # EmptyText))
             => (last'.warned /\ last'.sent = <<>> /\ wire' = wire)
       /\ \A w \in Sockets : wire'[w] # wire[w] =>
             /\ wire'[w] = wire[w] \o last'.sent
             /\ \/ last'.sent = <<Sent("onopen", GetTasksRequest)>>
                \/ last'.op \in Intents /\ last'.sent = <<ExpectedFrame'>>]_vars

\* C15 witness: a refresh was clicked while the socket was still connecting;
\* a warning was logged and the wire of that socket is empty.
C15_Witness ==
    /\ last.op = "fetchTasks"
    /\ last.warned
    /\ ~wsConnected
    /\ wsRef # NullRef
    /\ readyState[wsRef] = "CONNECTING"
    /\ wire[wsRef] = <<>>

\* the frames dropped as malformed: unparsable, or of a recognised type
\* (one that should carry tasks) without a tasks field
MalformedDropped ==
    {raw \in RawFrames :
        \/ Unparsable(raw)
        \/ MissingTasks(raw) /\ raw.value.type \in RecognisedTypes}

\* C16: every step of ws.onmessage that drops a frame as malformed
\* (unparsable, or of a recognised type without tasks) logs an error.
C16_DroppedFrameLogsError ==
    [][(last'.op = "onmessage" /\ ~last'.errored)
         => \A raw \in MalformedDropped, w \in Sockets : ~Deliver(w, raw)]_vars

\* the frames that parse to an object of no recognised type
UnrecognisedFrames ==
    {raw \in RawFrames : /\ raw.json
                         /\ raw.value.k = "object"
                         /\ raw.value.type \notin RecognisedTypes}

\* C18: a frame whose type is not one of the three recognised ones, or is
\* absent, leaves the Task List and its persisted copy unchanged, whatever
\* its tasks field holds.
C18_UnrecognisedTypeIgnored ==
    [][/\ (last'.op = "onmessage" /\ last'.foreign)
             => (tasks' = tasks /\ storage' = storage)
       /\ (last'.op = "onmessage" /\ tasks' # tasks)
             => \A raw \in UnrecognisedFrames, w \in Sockets :
                   ~Deliver(w, raw)]_vars

\* C18 witness: a frame of an unrecognised type carrying a list of Tasks was
\* handled while the Task List held the one-task list, which is still there.
C18_Witness ==
    /\ last.op = "onmessage"
    /\ last.foreign
    /\ ~last.errored
    /\ tasks = Arr(<<T1>>)
    /\ storage = Persisted(Arr(<<T1>>))

\* C19: a frame is handed only to a socket whose readyState is OPEN: after
\* a handler that sent a frame, the socket holding that frame as its newest
\* is OPEN (the handlers do not change readyState), and no other step sends.
C19_SendOnlyOnOpenSocket ==
    /\ (last.op \in Intents /\ last.sent # <<>>)
          => /\ wsRef # NullRef
             /\ readyState[wsRef] = "OPEN"
             /\ wire[wsRef] # <<>>
             /\ <<wire[wsRef][Len(wire[wsRef])]>> = last.sent
    /\ (last.op = "onopen" /\ last.sent # <<>>)
          => \E w \in Sockets : readyState[w] = "OPEN" /\ wire[w] = last.sent
    /\ last.op \notin (Intents \cup {"onopen"}) => last.sent = <<>>
    /\ \A w \in Sockets : readyState[w] \in {"NONE", "CONNECTING"}
                             => wire[w] = <<>>

\* C19 witness: a toggle_task frame was just handed to the OPEN socket, as
\* its second frame after get_tasks.
C19_Witness ==
    /\ last.op = "handleToggleComplete"
    /\ wsRef # NullRef
    /\ readyState[wsRef] = "OPEN"
    /\ Len(wire[wsRef]) = 2
    /\ last.sent = <<wire[wsRef][2]>>

\* C20: an add-task intent that handed no frame to the socket leaves the
\* draft text as it was.
C20_DraftClearedOnlyWhenSent ==
    (last.op = "handleAddTask" /\ last.sent = <<>>) => newTaskText = last.text

\* C13: against a backend that answers every action with its full list, on
\* a connection that opens, stays open and delivers in order, the Task List
\* is eventually, and from then on, the backend's list, whichever actions
\* (get_tasks, add_task, toggle_task) the page sent before it fell silent.
C13_EventuallyConsistent == <>[](tasks = Arr(sync.list))

\* C13 witness: get_tasks, an add_task and a toggle_task were sent, all three
\* were answered and the answers received, and the Task List is the
\* backend's list.
C13_Witness ==
    /\ sync.on
    /\ wsConnected
    /\ Len(wire[cur]) = 3
    /\ \E i, j \in 2..3 : /\ wire[cur][i].frame.action = "add_task"
                          /\ wire[cur][j].frame.action = "toggle_task"
    /\ sync.served = 3
    /\ sync.inflight = <<>>
    /\ tasks = Arr(sync.list)

\* the answers received so far
Delivered == sync.served - Len(sync.inflight)

\* the task named by the first toggle_task frame
ToggledId ==
    wire[cur][CHOOSE i \in ToggleFrames(cur) :
                 \A j \in ToggleFrames(cur) : i <= j].frame.id

\* the toggle_task frames for ToggledId whose answers were received
TogglesReceived ==
    {i \in ToggleFrames(cur) :
        i <= Delivered /\ wire[cur][i].frame.id = ToggledId}

\* toggle_task was sent exactly twice, for the same task, and both answers
\* were received
ToggledTwice ==
    /\ sync.on
    /\ cur >= 1
    /\ Cardinality(ToggleFrames(cur)) = 2
    /\ Cardinality(TogglesReceived) = 2

\* C17 as stated: once toggle_task was sent twice for a task and both
\* answers were received, the Task List shows for it the completed flag it
\* showed before the first toggle.
C17_DoubleToggleRestoresShown ==
    ToggledTwice => Completed(tasks.a, ToggledId) = sync.shown

\* C17 amended: for a task the backend holds, after the answer to the first
\* toggle_task the Task List shows the opposite of the flag the backend held
\* before it, and after the answer to the second it shows that flag again;
\* this is the flag the page showed before the first toggle if by then every
\* earlier frame had been answered and the answer received.
C17_DoubleToggleRestoresBackendValue ==
    (sync.on /\ cur >= 1 /\ ToggleFrames(cur) # {} /\ sync.pre # "none") =>
        /\ Cardinality(TogglesReceived) = 1
              => Completed(tasks.a, ToggledId) = Flip(sync.pre)
        /\ Cardinality(TogglesReceived) = 2
              => Completed(tasks.a, ToggledId) = sync.pre
        /\ (ToggledTwice /\ sync.fresh)
              => Completed(tasks.a, ToggledId) = sync.shown

\* C17 witness: task t1, shown as not completed after the answer to
\* get_tasks, was toggled twice; both answers were received and it is shown
\* as not completed.
C17_Witness ==
    /\ ToggledTwice
    /\ ToggledId = "t1"
    /\ sync.fresh
    /\ sync.shown = "false"
    /\ sync.pre = "false"
    /\ Completed(tasks.a, "t1") = "false"

====
